---- MODULE Spec2Model ----
(***************************************************************************)
(* Model of cmfpy.nlmetric (src/cmfpy/nlmetric/__init__.py):               *)
(*   determine_carrington_interval, make_hourly_medians, compute_NL_metric *)
(*                                                                         *)
(* Time is counted in ticks of ten minutes.  A floating point value is a   *)
(* pair <<n, d>> (the rational n/d, d > 0) and NaN is the empty tuple, so  *)
(* that linear interpolation is exact and NaN propagation is explicit.     *)
(***************************************************************************)
EXTENDS Integers, Sequences, FiniteSets, TLC

VARIABLES
    pc,                  \* position of the caller: which call has returned
    model_tseries,       \* compute_NL_metric argument: <<datetimes, values>>
    obs_tseries,         \* compute_NL_metric argument: <<datetimes, values>>
    score,               \* outcome of compute_NL_metric(model_tseries, obs_tseries)
    score_rev,           \* outcome of compute_NL_metric(obs_tseries, model_tseries)
    datetimes,           \* make_hourly_medians argument
    data,                \* make_hourly_medians argument
    hourly,              \* outcome of make_hourly_medians(datetimes, data)
    center_date,         \* determine_carrington_interval argument
    trajectory,          \* longitudes the ephemeris returns on the two month window
    carrington_interval  \* outcome of determine_carrington_interval

vars == <<pc, model_tseries, obs_tseries, score, score_rev,
          datetimes, data, hourly, center_date, trajectory, carrington_interval>>

(***************************************************************************)
(* Bounds of the model and units.                                          *)
(***************************************************************************)
MaxLen == 3          \* longest series handed to compute_NL_metric
MaxSamples == 3      \* most raw samples handed to make_hourly_medians
MaxHours == 3        \* raw samples lie within MaxHours hours (plus minutes)
HalfWin == 4         \* six hour steps in each half of the window (code: 120)

Hour == 6            \* cadence_days=1/24, in ticks
HalfHour == 3        \* datetime.timedelta(hours=0.5), in ticks
SixHours == 36       \* cadence_days=6/24, in ticks
UnixPerTick == 600   \* seconds in a tick

None == "None"

(***************************************************************************)
(* Floating point values.                                                  *)
(***************************************************************************)
NaN == <<>>
Num(n) == <<n, 1>>
IsNaN(v) == v = NaN

Sgn(n) == IF n > 0 THEN 1 ELSE IF n < 0 THEN -1 ELSE 0

\* np.sign on one element: NaN stays NaN
sign(v) == IF IsNaN(v) THEN NaN ELSE Num(Sgn(v[1]))

\* elementwise float product: NaN if either operand is NaN
fmul(a, b) == IF IsNaN(a) \/ IsNaN(b) THEN NaN ELSE <<a[1] * b[1], a[2] * b[2]>>

\* a float compared with the integer k (NaN == k is False)
feq(v, k) == ~IsNaN(v) /\ v[1] = k * v[2]

\* utils.datetime2unix / datetime.timestamp(): ticks to unix seconds
datetime2unix(dts) == [i \in DOMAIN dts |-> dts[i] * UnixPerTick]

\* utils.gen_dt_arr: dt_init, dt_init + cadence, ... while earlier than dt_final
RECURSIVE gen_dt_arr(_, _, _)
gen_dt_arr(dt_init, dt_final, cadence) ==
    IF dt_init < dt_final
    THEN <<dt_init>> \o gen_dt_arr(dt_init + cadence, dt_final, cadence)
    ELSE <<>>

(***************************************************************************)
(* compute_NL_metric                                                       *)
(***************************************************************************)
\* scipy interp1d(x, y, bounds_error=False)(x_new) at one point x_new, for
\* strictly increasing x: NaN outside [x[1], x[-1]], y[j] at a knot, and the
\* straight line between the two neighbouring knots otherwise.
interp1d(x, y, x_new) ==
    IF x_new < x[1] \/ x_new > x[Len(x)] THEN NaN
    ELSE IF \E j \in DOMAIN x : x[j] = x_new
    THEN y[CHOOSE j \in DOMAIN x : x[j] = x_new]
    ELSE LET j == CHOOSE k \in 1..(Len(x) - 1) : x[k] < x_new /\ x_new < x[k + 1]
             lo == y[j]
             hi == y[j + 1]
             dx == x[j + 1] - x[j]
         IN IF IsNaN(lo) \/ IsNaN(hi) THEN NaN
            ELSE <<lo[1] * hi[2] * dx + (hi[1] * lo[2] - lo[1] * hi[2]) * (x_new - x[j]),
                   lo[2] * hi[2] * dx>>

\* the condition of the if statement: the series are not on one grid
misaligned(model_tstamps, obs_tstamps) ==
    \/ Len(model_tstamps) # Len(obs_tstamps)
    \/ model_tstamps[1] # obs_tstamps[1]
    \/ model_tstamps[Len(model_tstamps)] # obs_tstamps[Len(obs_tstamps)]

\* model_pol = np.sign(model_tseries[1])
model_polarity(model_tseries_) == [i \in DOMAIN model_tseries_[2] |-> sign(model_tseries_[2][i])]

\* obs_pol = np.sign(obs_tseries[1])
obs_polarity(obs_tseries_) == [i \in DOMAIN obs_tseries_[2] |-> sign(obs_tseries_[2][i])]

\* obs_pol as it enters the product: resampled onto the model grid if misaligned
aligned_obs_pol(model_tstamps, obs_tstamps, obs_pol) ==
    IF misaligned(model_tstamps, obs_tstamps)
    THEN [i \in DOMAIN model_tstamps |-> interp1d(obs_tstamps, obs_pol, model_tstamps[i])]
    ELSE obs_pol

\* mutant of product: obs_pol*obs_pol
product_obs_twice(obs_pol, model_pol) == [i \in DOMAIN model_pol |-> fmul(obs_pol[i], obs_pol[i])]

\* mult = obs_pol*model_pol
product(obs_pol, model_pol) == [i \in DOMAIN model_pol |-> fmul(obs_pol[i], model_pol[i])]

\* np.nansum(mult[mult == 1]): every selected entry is 1, so the sum is their number
agreements(mult) == Cardinality({i \in DOMAIN mult : feq(mult[i], 1)})

\* len(~np.isnan(mult)): the length of the boolean mask, not the number of True
denominator(mult) == Len(mult)

compute_NL_metric(model_tseries_, obs_tseries_) ==
    LET model_tstamps == datetime2unix(model_tseries_[1])
        model_pol == model_polarity(model_tseries_)
        obs_tstamps == datetime2unix(obs_tseries_[1])
        obs_pol0 == obs_polarity(obs_tseries_)
    IN IF Len(model_tstamps) = 0 \/ Len(obs_tstamps) = 0
       THEN [outcome |-> "IndexError", num |-> 0, den |-> 0, obs_pol |-> <<>>, mult |-> <<>>]
       ELSE LET obs_pol == aligned_obs_pol(model_tstamps, obs_tstamps, obs_pol0)
                mult == product(obs_pol, model_pol)
            IN [outcome |-> "value", num |-> agreements(mult), den |-> denominator(mult),
                obs_pol |-> obs_pol, mult |-> mult]

(***************************************************************************)
(* Inputs of compute_NL_metric: series of at most MaxLen points.           *)
(***************************************************************************)
RawValues == {NaN, Num(-2), Num(0), Num(1)}
ScoreTicks == 0..(MaxLen - 1)

Increasing(s) == \A i \in 1..(Len(s) - 1) : s[i] < s[i + 1]

IncreasingSeqs(S, k) == {s \in [1..k -> S] : Increasing(s)}

\* all <<datetimes, values>> with k points
SeriesOfLen(k) == IncreasingSeqs(ScoreTicks, k) \X [1..k -> RawValues]

TimeSeries == UNION {SeriesOfLen(k) : k \in 0..MaxLen}

(***************************************************************************)
(* make_hourly_medians                                                     *)
(***************************************************************************)
\* mutant of ts_edges: datetime_hourly[1:] keeps the last boundary
ts_edges_keep_last(datetime_hourly) ==
    datetime2unix(SubSeq(datetime_hourly, 2, Len(datetime_hourly)))

\* ts_edges: the interior boundaries datetime_hourly[1:-1], as timestamps
ts_edges(datetime_hourly) ==
    datetime2unix(SubSeq(datetime_hourly, 2, Len(datetime_hourly) - 1))

\* mutant of first_after: timestamps >= te
first_at_or_after(timestamps, te) ==
    CHOOSE i \in DOMAIN timestamps :
        /\ timestamps[i] >= te
        /\ \A j \in 1..(i - 1) : ~(timestamps[j] >= te)

\* np.where(timestamps > te)[0][0], as a 1-based index
first_after(timestamps, te) ==
    CHOOSE i \in DOMAIN timestamps :
        /\ timestamps[i] > te
        /\ \A j \in 1..(i - 1) : ~(timestamps[j] > te)

\* argsplit: one split index per interior boundary
argsplit(timestamps, edges) == [k \in DOMAIN edges |-> first_after(timestamps, edges[k])]

\* np.split(data, argsplit): data[:a1], data[a1:a2], ..., data[ak:]
split(data_, args) ==
    [k \in 1..(Len(args) + 1) |->
        SubSeq(data_,
               IF k = 1 THEN 1 ELSE args[k - 1],
               IF k = Len(args) + 1 THEN Len(data_) ELSE args[k] - 1)]

\* the numerators of the values of slice_ that are not NaN, as a sequence
valid(slice_) == SelectSeq(slice_, LAMBDA v : ~IsNaN(v))

\* the r-th smallest numerator of a sequence of floats with denominator 1
ranked(vals, r) ==
    LET v == CHOOSE w \in {vals[i][1] : i \in DOMAIN vals} :
                 /\ Cardinality({i \in DOMAIN vals : vals[i][1] < w}) < r
                 /\ r <= Cardinality({i \in DOMAIN vals : vals[i][1] <= w})
    IN v

\* mutant of nanmedian: a slice without valid values is imputed as 0
nanmedian_imputing(slice_) ==
    LET vals == valid(slice_)
        n == Len(vals)
    IN IF n = 0 THEN Num(0)
       ELSE IF n % 2 = 1 THEN Num(ranked(vals, (n + 1) \div 2))
       ELSE <<ranked(vals, n \div 2) + ranked(vals, n \div 2 + 1), 2>>

\* np.nanmedian: the median of the values that are not NaN; NaN if there are none
nanmedian(slice_) ==
    LET vals == valid(slice_)
        n == Len(vals)
    IN IF n = 0 THEN NaN
       ELSE IF n % 2 = 1 THEN Num(ranked(vals, (n + 1) \div 2))
       ELSE <<ranked(vals, n \div 2) + ranked(vals, n \div 2 + 1), 2>>

\* datetime_hourly[:-1] + datetime.timedelta(hours=0.5)
bin_centers(datetime_hourly) ==
    [k \in 1..(Len(datetime_hourly) - 1) |-> datetime_hourly[k] + HalfHour]

make_hourly_medians(datetimes_, data_) ==
    LET timestamps == datetime2unix(datetimes_)
        datetime_hourly == gen_dt_arr(datetimes_[1], datetimes_[Len(datetimes_)], Hour)
        edges == ts_edges(datetime_hourly)
        args == argsplit(timestamps, edges)
        data_split == split(data_, args)
        medians == [k \in DOMAIN data_split |-> nanmedian(data_split[k])]
    IN [centers |-> bin_centers(datetime_hourly), medians |-> medians,
        datetime_hourly |-> datetime_hourly, data_split |-> data_split]

(***************************************************************************)
(* Inputs of make_hourly_medians: 2..MaxSamples samples at strictly        *)
(* increasing times, each on the hour or ten minutes past it.              *)
(***************************************************************************)
DataValues == {NaN, Num(1), Num(3)}
SampleTicks == {h * Hour + m : h \in 0..MaxHours, m \in {0, 1}}

RawSamples == UNION {IncreasingSeqs(SampleTicks, k) \X [1..k -> DataValues] : k \in 2..MaxSamples}

(***************************************************************************)
(* determine_carrington_interval                                           *)
(***************************************************************************)
ThirtyDays == HalfWin * SixHours     \* datetime.timedelta(days=30), shortened

\* two_month_window
two_month_window(center_date_) ==
    gen_dt_arr(center_date_ - ThirtyDays, center_date_ + ThirtyDays, SixHours)

\* inst_antipode: "+ 180 % 360" adds 180 % 360 = 180 to the longitude
inst_antipode(inst_lon) == inst_lon + (180 % 360)

\* (two_month_trajectory.lon - inst_antipode).value % 360
relative_lon(lons, antipode) == [i \in DOMAIN lons |-> (lons[i] - antipode) % 360]

\* np.where(np.diff(rel) > 180)[0] + 1, as 1-based indices in increasing order
RECURSIVE carr_inds_from(_, _)
carr_inds_from(rel, j) ==
    IF j > Len(rel) THEN <<>>
    ELSE (IF rel[j] - rel[j - 1] > 180 THEN <<j>> ELSE <<>>) \o carr_inds_from(rel, j + 1)

carr_inds(rel) == carr_inds_from(rel, 2)

\* lons: the ephemeris longitudes on two_month_window; the reference date is
\* the window's sample HalfWin + 1, so its longitude is lons[HalfWin + 1]
determine_carrington_interval(center_date_, lons) ==
    LET window == two_month_window(center_date_)
        antipode == inst_antipode(lons[HalfWin + 1])
        inds == carr_inds(relative_lon(lons, antipode))
    IN [k \in DOMAIN inds |-> window[inds[k]]]

Longitudes == {0, 90, 180, 270}
CenterDates == {0, 7}
Trajectories == [1..(2 * HalfWin) -> Longitudes]

(***************************************************************************)
(* The three callers.                                                      *)
(***************************************************************************)
InitScore ==
    /\ pc = "start"
    /\ model_tseries \in TimeSeries
    /\ obs_tseries \in TimeSeries
    /\ score = None
    /\ score_rev = None
    /\ datetimes = <<>>
    /\ data = <<>>
    /\ hourly = None
    /\ center_date = 0
    /\ trajectory = <<>>
    /\ carrington_interval = None

Score ==
    /\ pc = "start"
    /\ score' = compute_NL_metric(model_tseries, obs_tseries)
    /\ pc' = "scored"
    /\ UNCHANGED <<model_tseries, obs_tseries, score_rev, datetimes, data, hourly,
                   center_date, trajectory, carrington_interval>>

ScoreSwapped ==
    /\ pc = "scored"
    /\ score_rev' = compute_NL_metric(obs_tseries, model_tseries)
    /\ pc' = "both"
    /\ UNCHANGED <<model_tseries, obs_tseries, score, datetimes, data, hourly,
                   center_date, trajectory, carrington_interval>>

NextScore == Score \/ ScoreSwapped

SpecScore == InitScore /\ [][NextScore]_vars

InitHourly ==
    /\ pc = "start"
    /\ \E s \in RawSamples : datetimes = s[1] /\ data = s[2]
    /\ hourly = None
    /\ model_tseries = <<>>
    /\ obs_tseries = <<>>
    /\ score = None
    /\ score_rev = None
    /\ center_date = 0
    /\ trajectory = <<>>
    /\ carrington_interval = None

Reduce ==
    /\ pc = "start"
    /\ hourly' = make_hourly_medians(datetimes, data)
    /\ pc' = "reduced"
    /\ UNCHANGED <<model_tseries, obs_tseries, score, score_rev, datetimes, data,
                   center_date, trajectory, carrington_interval>>

\* create_polarity_obs, body == "L1": br_medians *= -1 on the returned medians
FlipL1 ==
    /\ pc = "reduced"
    /\ hourly' = [hourly EXCEPT !.medians =
                      [k \in DOMAIN hourly.medians |-> fmul(hourly.medians[k], Num(-1))]]
    /\ pc' = "flipped"
    /\ UNCHANGED <<model_tseries, obs_tseries, score, score_rev, datetimes, data,
                   center_date, trajectory, carrington_interval>>

NextHourly == Reduce \/ FlipL1

SpecHourly == InitHourly /\ [][NextHourly]_vars

InitInterval ==
    /\ pc = "start"
    /\ center_date \in CenterDates
    /\ trajectory \in Trajectories
    /\ carrington_interval = None
    /\ model_tseries = <<>>
    /\ obs_tseries = <<>>
    /\ score = None
    /\ score_rev = None
    /\ datetimes = <<>>
    /\ data = <<>>
    /\ hourly = None

Resolve ==
    /\ pc = "start"
    /\ carrington_interval' = determine_carrington_interval(center_date, trajectory)
    /\ pc' = "resolved"
    /\ UNCHANGED <<model_tseries, obs_tseries, score, score_rev, datetimes, data, hourly,
                   center_date, trajectory>>

NextInterval == Resolve

SpecInterval == InitInterval /\ [][NextInterval]_vars

(***************************************************************************)
(* Properties of compute_NL_metric (checked under SpecScore).              *)
(***************************************************************************)
Scored == pc \in {"scored", "both"}

NonEmptySeries == Len(model_tseries[1]) > 0 /\ Len(obs_tseries[1]) > 0

\* the polarity product at position i of two series on one grid
PolarityProduct(i) == fmul(sign(obs_tseries[2][i]), sign(model_tseries[2][i]))

AgreeingPositions == {i \in DOMAIN model_tseries[2] : feq(PolarityProduct(i), 1)}

ComparablePositions == {i \in DOMAIN model_tseries[2] : ~IsNaN(PolarityProduct(i))}

IsPolarity(v) == IsNaN(v) \/ feq(v, 1) \/ feq(v, -1) \/ feq(v, 0)

\* C1: on one timestamp grid the score is the number of positions whose
\* polarity product is +1 divided by the number of positions whose product
\* is not NaN.
C1_ScoreIsAgreementOverComparable ==
    (/\ Scored
     /\ NonEmptySeries
     /\ model_tseries[1] = obs_tseries[1]
     /\ ComparablePositions # {})
    => /\ score.outcome = "value"
       /\ score.num * Cardinality(ComparablePositions)
              = Cardinality(AgreeingPositions) * score.den

\* C2: with no comparable entry (an empty series, or every entry of the
\* product NaN) the call ends in an error; it returns no number.
C2_NoComparableIsError ==
    (/\ Scored
     /\ \/ ~NonEmptySeries
        \/ \A i \in DOMAIN score.mult : IsNaN(score.mult[i]))
    => score.outcome # "value"

SameOutcome(a, b) == a.outcome = b.outcome /\ a.num * b.den = b.num * a.den

\* C3 as stated: score(A, B) equals score(B, A) for every pair of series,
\* also when the second argument is resampled onto the first one's grid.
C3_Symmetric == pc = "both" => SameOutcome(score, score_rev)

\* C3 as amended: score(A, B) equals score(B, A) for non-empty series of the
\* same length with the same first and last timestamps (no resampling).
C3_SymmetricOnOneGrid ==
    (/\ pc = "both"
     /\ NonEmptySeries
     /\ ~misaligned(datetime2unix(model_tseries[1]), datetime2unix(obs_tseries[1])))
    => /\ score.outcome = "value"
       /\ score_rev.outcome = "value"
       /\ score.num * score_rev.den = score_rev.num * score.den

\* both calls returned on one grid, for different series that agree somewhere
\* and disagree somewhere
C3_Witness ==
    /\ pc = "both"
    /\ NonEmptySeries
    /\ ~misaligned(datetime2unix(model_tseries[1]), datetime2unix(obs_tseries[1]))
    /\ model_tseries[2] # obs_tseries[2]
    /\ 0 < score.num
    /\ score.num < score.den

\* C4: a non-empty polarity series scored against itself gives exactly 1.0
\* when it has a comparable entry.  Stated for entries +1, -1 and NaN, where
\* the ratio agreements / comparable entries is 1 as well (an entry 0 gives
\* the product 0, which is comparable and no agreement).
C4_SelfScoreIsOne ==
    (/\ Scored
     /\ model_tseries = obs_tseries
     /\ \A i \in DOMAIN model_tseries[2] : model_tseries[2][i] \in {NaN, Num(1), Num(-1)}
     /\ \E i \in DOMAIN model_tseries[2] : ~IsNaN(model_tseries[2][i]))
    => /\ score.outcome = "value"
       /\ score.num = score.den

\* C9: after resampling, every entry of the aligned observed polarity and of
\* the product is +1, -1, 0 or NaN.
C9_ResampledPolarityIsSign ==
    (/\ Scored
     /\ NonEmptySeries
     /\ misaligned(datetime2unix(model_tseries[1]), datetime2unix(obs_tseries[1])))
    => \A i \in DOMAIN score.mult :
           IsPolarity(score.obs_pol[i]) /\ IsPolarity(score.mult[i])

(***************************************************************************)
(* Properties of make_hourly_medians (checked under SpecHourly).           *)
(***************************************************************************)
\* the k-th hourly boundary after the first sample
Boundary(k) == datetimes[1] + k * Hour

NBins == Len(hourly.medians)

\* sample i lies in the k-th hourly partition: after boundary k-1 (the first
\* partition starts with the first sample) and not after boundary k (the last
\* partition runs to the last sample)
InBin(i, k) ==
    /\ k = 1 \/ datetimes[i] > Boundary(k - 1)
    /\ k = NBins \/ datetimes[i] <= Boundary(k)

\* the numerators of the samples of partition k that are not NaN
OwnValues(k) == {data[i][1] : i \in {j \in DOMAIN data : InBin(j, k) /\ ~IsNaN(data[j])}}

\* C6: samples at t0, t0+10min, t0+70min with values 1.0, NaN, 3.0 give two
\* bins with the values 1.0 and 3.0.
C6_ScenarioTwoBins ==
    (/\ pc = "reduced"
     /\ Len(datetimes) = 3
     /\ datetimes[2] = datetimes[1] + 1
     /\ datetimes[3] = datetimes[1] + Hour + 1
     /\ data = <<Num(1), NaN, Num(3)>>)
    => /\ Len(hourly.medians) = 2
       /\ Len(hourly.centers) = 2
       /\ feq(hourly.medians[1], 1)
       /\ feq(hourly.medians[2], 3)

\* C7: with N >= 2 hourly boundaries there are N-1 centers and N-1 values,
\* center k is boundary k plus 30 minutes, and centers are one hour apart.
C7_CentersAndValues ==
    (pc = "reduced" /\ Len(hourly.datetime_hourly) >= 2)
    => LET N == Len(hourly.datetime_hourly)
       IN /\ Len(hourly.centers) = N - 1
          /\ Len(hourly.medians) = N - 1
          /\ \A k \in 1..(N - 1) :
                 /\ hourly.centers[k] = hourly.datetime_hourly[k] + HalfHour
                 /\ hourly.centers[k] = Boundary(k - 1) + HalfHour
          /\ \A k \in 1..(N - 2) : hourly.centers[k + 1] - hourly.centers[k] = Hour

\* the call returned at least two bins
C7_Witness == pc = "reduced" /\ Len(hourly.datetime_hourly) >= 3 /\ Len(hourly.medians) >= 2

\* C8: a bin whose partition holds no value that is not NaN is NaN, and a
\* numeric bin value lies between the smallest and the largest valid value of
\* its own partition.
C8_EmptyBinsAreMissing ==
    pc = "reduced"
    => \A k \in DOMAIN hourly.medians :
           /\ OwnValues(k) = {} => IsNaN(hourly.medians[k])
           /\ ~IsNaN(hourly.medians[k]) =>
                  \E lo \in OwnValues(k), hi \in OwnValues(k) :
                      /\ lo * hourly.medians[k][2] <= hourly.medians[k][1]
                      /\ hourly.medians[k][1] <= hi * hourly.medians[k][2]

\* the call returned a bin without samples, a bin whose samples are all NaN,
\* and a numeric bin
C8_Witness ==
    /\ pc = "reduced"
    /\ \E k \in DOMAIN hourly.medians : \A i \in DOMAIN data : ~InBin(i, k)
    /\ \E k \in DOMAIN hourly.medians :
           /\ \E i \in DOMAIN data : InBin(i, k)
           /\ OwnValues(k) = {}
           /\ IsNaN(hourly.medians[k])
    /\ \E k \in DOMAIN hourly.medians : ~IsNaN(hourly.medians[k])

RECURSIVE Concat(_)
Concat(ss) == IF ss = <<>> THEN <<>> ELSE Head(ss) \o Concat(Tail(ss))

\* the bin that holds input position i: the first k such that the bins up to
\* k hold at least i samples
BinOf(i) ==
    CHOOSE k \in DOMAIN hourly.data_split :
        /\ Len(Concat(SubSeq(hourly.data_split, 1, k))) >= i
        /\ \A j \in 1..(k - 1) : Len(Concat(SubSeq(hourly.data_split, 1, j))) < i

\* C10: the bins in order concatenate to the input, and sample i is in one of
\* the first k bins exactly if its timestamp is not later than the k-th
\* boundary: a sample on an interior boundary is in the bin that ends there.
C10_PartitionByBoundaries ==
    pc = "reduced"
    => /\ Concat(hourly.data_split) = data
       /\ \A i \in DOMAIN data : \A k \in 1..(NBins - 1) :
              (BinOf(i) <= k) <=> (datetimes[i] <= Boundary(k))

\* the call returned with a sample exactly on an interior boundary, held by
\* the bin that ends there, and a later sample in the next bin
C10_Witness ==
    /\ pc = "reduced"
    /\ \E i \in DOMAIN data : \E k \in 1..(NBins - 1) :
           /\ datetimes[i] = Boundary(k)
           /\ BinOf(i) = k
           /\ i < Len(data)
           /\ BinOf(i + 1) = k + 1

(***************************************************************************)
(* Properties of determine_carrington_interval (checked under SpecInterval)*)
(***************************************************************************)
\* C5: the call returns exactly two timestamps, start < reference_time < end
\* (the code has no IntervalNotFound outcome, so every return must be one).
C5_TwoBracketingCrossings ==
    pc = "resolved"
    => /\ Len(carrington_interval) = 2
       /\ carrington_interval[1] < center_date
       /\ center_date < carrington_interval[2]

\* the call can return two crossings around the reference date
C5_Bracketing ==
    /\ pc = "resolved"
    /\ Len(carrington_interval) = 2
    /\ carrington_interval[1] < center_date
    /\ center_date < carrington_interval[2]

====
